---- MODULE Spec2Model ----
(***************************************************************************)
(* State-machine model of the tile RPG in src/src/main.rs: the Game        *)
(* aggregate, the input section of the main loop (one step = one frame),   *)
(* movement, location transitions, dialogue, combat and the message log.   *)
(* Indices (npc_idx, node_idx, selected) are 0-based as in the source;     *)
(* sequences are 1-based, so every access adds one.                        *)
(* Option<T> is modelled as a sequence: << >> is None, <<v>> is Some(v).   *)
(* Render-only data (glyphs, dialogue texts, player stats) is left out.    *)
(***************************************************************************)
EXTENDS Integers, Sequences, FiniteSets, TLC

\* `let mut game = Game::new()` in main: the Game aggregate as a record of
\* its fields, plus `panicked`: whether the process has aborted on a panic.
VARIABLES game

vars == <<game>>

\* ------------------------------------------------------------------ bounds
\* At most MaxKeys keys register as pressed in one frame.
MaxKeys == 2
\* The player is steered only over cells at most Roam cells off the lanes.
Roam == 0
\* A long fight is followed while the inventory holds at most MaxInventory items.
MaxInventory == 1

\* ------------------------------------------------------- program constants
damage == 15
enemy_damage == 10
MaxMessages == 5

\* ---------------------------------------------------------------- terrain
InRect(x, y, x1, x2, y1, y2) == x >= x1 /\ x < x2 /\ y >= y1 /\ y < y2

\* TileType::is_walkable
TileWalkable(t) == t \in {"Floor", "Door", "Grass", "Forest", "Town", "Dungeon"}

\* TileType::is_enterable
is_enterable(t) == t \in {"Town", "Dungeon"}

\* GameMap::new_world_map: tiles[y][x], later writes win.
WorldTile(x, y) ==
    IF <<x, y>> \in {<<40, 8>>, <<25, 30>>} THEN "Dungeon"
    ELSE IF <<x, y>> \in {<<15, 10>>, <<50, 25>>} THEN "Town"
    ELSE IF InRect(x, y, 40, 60, 30, 35) THEN "Water"
    ELSE IF InRect(x, y, 10, 20, 15, 25) THEN "Forest"
    ELSE IF InRect(x, y, 20, 30, 5, 10) THEN "Mountain"
    ELSE "Grass"

\* GameMap::new_town_map: tiles[y][x], later writes win.
TownTile(x, y) ==
    IF <<x, y>> = <<10, 15>> THEN "Water"
    ELSE IF <<x, y>> = <<25, 18>> THEN "Door"
    ELSE IF InRect(x, y, 20, 30, 15, 22) THEN "Wall"
    ELSE IF <<x, y>> = <<10, 8>> THEN "Door"
    ELSE IF InRect(x, y, 5, 15, 5, 12) THEN "Wall"
    ELSE IF x = 0 \/ x = 40 - 1 \/ y = 0 \/ y = 30 - 1 THEN "Wall"
    ELSE "Floor"

\* GameMap::new_dungeon_map: tiles[y][x], later writes win.
DungeonTile(x, y) ==
    IF InRect(x, y, 25, 30, 8, 12) THEN "Water"
    ELSE IF <<x, y>> = <<20, 15>> THEN "Door"
    ELSE IF x = 20 /\ y >= 10 /\ y < 20 THEN "Wall"
    ELSE IF <<x, y>> = <<12, 5>> THEN "Door"
    ELSE IF y = 5 /\ x >= 10 /\ x < 15 THEN "Wall"
    ELSE IF x = 0 \/ x = 40 - 1 \/ y = 0 \/ y = 30 - 1 THEN "Wall"
    ELSE "Floor"

\* GameMap.tiles[y][x]; the tile matrix is fixed by the map's constructor.
tiles(m, x, y) ==
    IF m.map_type = "WorldMap" THEN WorldTile(x, y)
    ELSE IF m.map_type = "Town" THEN TownTile(x, y)
    ELSE DungeonTile(x, y)

\* is_walkable without the bounds test, the tile pattern continued past the
\* edges.
is_walkable_unbounded(m, x, y) == TileWalkable(tiles(m, x, y))

\* is_walkable with the upper bounds tested by > instead of >=.
is_walkable_off_by_one(m, x, y) ==
    IF x < 0 \/ x > m.width \/ y < 0 \/ y > m.height THEN FALSE
    ELSE TileWalkable(tiles(m, x, y))

\* GameMap::is_walkable
is_walkable(m, x, y) ==
    IF x < 0 \/ x >= m.width \/ y < 0 \/ y >= m.height THEN FALSE
    ELSE TileWalkable(tiles(m, x, y))

\* ------------------------------------------------------------------- maps
TownSupply == [name |-> "Town Supply", item_type |-> <<"Consumable", 30>>]
TreasureChest == [name |-> "Treasure Chest", item_type |-> <<"Weapon", 25>>]

new_world_map ==
    [width |-> 80, height |-> 40, items |-> << >>,
     map_type |-> "WorldMap", name |-> "Wasteland"]

new_town_map(town_id) ==
    [width |-> 40, height |-> 30,
     items |-> [p \in {<<10, 15>>} |-> TownSupply],
     map_type |-> "Town", name |-> "Town #" \o ToString(town_id + 1)]

new_dungeon_map(dungeon_id) ==
    [width |-> 40, height |-> 30,
     items |-> [p \in {<<5, 5>>} |-> TreasureChest],
     map_type |-> "Dungeon", name |-> "Dungeon #" \o ToString(dungeon_id + 1)]

\* ----------------------------------------------------------------- actors
\* A DialogueNode is its sequence of options; an option is its next_node.
Opt(next) == [next_node |-> next]
Node(opts) == [options |-> opts]

WorldNpcs ==
    << [name |-> "Traveling Merchant", x |-> 35, y |-> 20, hp |-> 50,
        max_hp |-> 50, hostile |-> FALSE,
        dialogue |-> << Node(<<Opt(<<1>>), Opt(<<2>>), Opt(<< >>)>>),
                        Node(<<Opt(<< >>)>>),
                        Node(<<Opt(<< >>)>>) >>] >>

TownNpcs ==
    << [name |-> "Townfolk", x |-> 15, y |-> 15, hp |-> 50,
        max_hp |-> 50, hostile |-> FALSE,
        dialogue |-> << Node(<<Opt(<<1>>), Opt(<<2>>)>>),
                        Node(<<Opt(<< >>)>>),
                        Node(<<Opt(<< >>)>>) >>],
       [name |-> "Blacksmith", x |-> 10, y |-> 8, hp |-> 80,
        max_hp |-> 80, hostile |-> FALSE,
        dialogue |-> << Node(<<Opt(<<1>>), Opt(<<2>>)>>),
                        Node(<<Opt(<< >>)>>),
                        Node(<<Opt(<< >>)>>) >>] >>

DungeonNpcs ==
    << [name |-> "Dungeon Guard", x |-> 10, y |-> 10, hp |-> 80,
        max_hp |-> 80, hostile |-> TRUE,
        dialogue |-> << Node(<<Opt(<< >>)>>) >>],
       [name |-> "Mutant Beast", x |-> 25, y |-> 15, hp |-> 100,
        max_hp |-> 100, hostile |-> TRUE,
        dialogue |-> << Node(<<Opt(<< >>)>>) >>] >>

\* ------------------------------------------------------------- game modes
Playing == [tag |-> "Playing"]
Inventory == [tag |-> "Inventory"]
Dialogue(a, n, o) == [tag |-> "Dialogue", npc_idx |-> a, node_idx |-> n, selected |-> o]
Combat(a) == [tag |-> "Combat", npc_idx |-> a]

\* --------------------------------------------------------------- the Game
WelcomeMsg == "Welcome to the Wasteland! Press SPACE to enter towns/dungeons, ESC to return."

\* Game::new
NewGame ==
    [player |-> [x |-> 40, y |-> 20, hp |-> 100, max_hp |-> 100, inventory |-> << >>],
     current_map |-> new_world_map,
     world_map |-> new_world_map,
     town_maps |-> <<new_town_map(0), new_town_map(1)>>,
     dungeon_maps |-> <<new_dungeon_map(0), new_dungeon_map(1)>>,
     npcs |-> WorldNpcs,
     state |-> Playing,
     messages |-> <<WelcomeMsg>>,
     camera_x |-> 0,
     camera_y |-> 0,
     previous_location |-> << >>,
     panicked |-> FALSE]

\* add_message that drops the oldest entry one append too late.
add_message_late(g, msg) ==
    LET pushed == Append(g.messages, msg)
    IN [g EXCEPT !.messages = IF Len(pushed) > MaxMessages + 1 THEN Tail(pushed) ELSE pushed]

\* Game::add_message
add_message(g, msg) ==
    LET pushed == Append(g.messages, msg)
    IN [g EXCEPT !.messages = IF Len(pushed) > MaxMessages THEN Tail(pushed) ELSE pushed]

\* Vec::remove(i), i 0-based
RemoveAt(s, i) == [k \in 1..(Len(s) - 1) |-> IF k <= i THEN s[k] ELSE s[k + 1]]

\* HashMap::remove(&key): the map without the key
MapRemove(f, key) == [p \in (DOMAIN f) \ {key} |-> f[p]]

\* NpcPosition that finds hostile actors only.
NpcPositionHostile(g, x, y) ==
    LET hits == {i \in 1..Len(g.npcs) :
                    g.npcs[i].hostile /\ g.npcs[i].x = x /\ g.npcs[i].y = y}
    IN IF hits = {} THEN << >>
       ELSE <<(CHOOSE i \in hits : \A j \in hits : i <= j) - 1>>

\* npcs.iter().position(|n| n.x == x && n.y == y): << >> or <<first index>>
NpcPosition(g, x, y) ==
    LET hits == {i \in 1..Len(g.npcs) : g.npcs[i].x = x /\ g.npcs[i].y = y}
    IN IF hits = {} THEN << >>
       ELSE <<(CHOOSE i \in hits : \A j \in hits : i <= j) - 1>>

\* The catalog maps with the entry named like map m replaced by m.
WriteBack(maps, m) == [i \in 1..Len(maps) |-> IF maps[i].name = m.name THEN m ELSE maps[i]]

\* move_player whose pickup also removes the item from the catalog map the
\* active grid was taken from.
move_player_write_back(g, dx, dy) ==
    LET new_x == g.player.x + dx
        new_y == g.player.y + dy
        found == NpcPosition(g, new_x, new_y)
    IN IF found # << >>
       THEN IF g.npcs[found[1] + 1].hostile
            THEN add_message([g EXCEPT !.state = Combat(found[1])],
                             "Combat with " \o g.npcs[found[1] + 1].name \o "!")
            ELSE [g EXCEPT !.state = Dialogue(found[1], 0, 0)]
       ELSE IF ~is_walkable(g.current_map, new_x, new_y) THEN g
       ELSE IF <<new_x, new_y>> \notin DOMAIN g.current_map.items
       THEN [g EXCEPT !.player.x = new_x, !.player.y = new_y]
       ELSE LET left == [g.current_map EXCEPT !.items = MapRemove(@, <<new_x, new_y>>)]
                item == g.current_map.items[<<new_x, new_y>>]
            IN add_message([g EXCEPT !.player.x = new_x, !.player.y = new_y,
                                     !.player.inventory = Append(@, item),
                                     !.current_map = left,
                                     !.town_maps = WriteBack(@, left),
                                     !.dungeon_maps = WriteBack(@, left)],
                           "Picked up " \o item.name)

\* move_player with the terrain test before the actor test: a walkable
\* target is entered even when an actor stands on it.
move_player_terrain_first(g, dx, dy) ==
    LET new_x == g.player.x + dx
        new_y == g.player.y + dy
        found == NpcPosition(g, new_x, new_y)
    IN IF is_walkable(g.current_map, new_x, new_y)
       THEN [g EXCEPT !.player.x = new_x, !.player.y = new_y]
       ELSE IF found # << >>
       THEN IF g.npcs[found[1] + 1].hostile
            THEN add_message([g EXCEPT !.state = Combat(found[1])],
                             "Combat with " \o g.npcs[found[1] + 1].name \o "!")
            ELSE [g EXCEPT !.state = Dialogue(found[1], 0, 0)]
       ELSE g

\* move_player that reports a rejected move on the log.
move_player_bumping(g, dx, dy) ==
    LET new_x == g.player.x + dx
        new_y == g.player.y + dy
        found == NpcPosition(g, new_x, new_y)
    IN IF found # << >>
       THEN LET npc_idx == found[1]
            IN IF g.npcs[npc_idx + 1].hostile
               THEN add_message([g EXCEPT !.state = Combat(npc_idx)],
                                "Combat with " \o g.npcs[npc_idx + 1].name \o "!")
               ELSE [g EXCEPT !.state = Dialogue(npc_idx, 0, 0)]
       ELSE IF is_walkable(g.current_map, new_x, new_y)
       THEN LET moved == [g EXCEPT !.player.x = new_x, !.player.y = new_y]
            IN IF <<new_x, new_y>> \in DOMAIN g.current_map.items
               THEN LET item == g.current_map.items[<<new_x, new_y>>]
                        taken == [moved EXCEPT !.current_map.items =
                                      MapRemove(g.current_map.items, <<new_x, new_y>>)]
                        logged == add_message(taken, "Picked up " \o item.name)
                    IN [logged EXCEPT !.player.inventory = Append(@, item)]
               ELSE moved
       ELSE add_message(g, "Blocked!")

\* Game::move_player
move_player(g, dx, dy) ==
    LET new_x == g.player.x + dx
        new_y == g.player.y + dy
        found == NpcPosition(g, new_x, new_y)
    IN IF found # << >>
       THEN LET npc_idx == found[1]
            IN IF g.npcs[npc_idx + 1].hostile
               THEN add_message([g EXCEPT !.state = Combat(npc_idx)],
                                "Combat with " \o g.npcs[npc_idx + 1].name \o "!")
               ELSE [g EXCEPT !.state = Dialogue(npc_idx, 0, 0)]
       ELSE IF is_walkable(g.current_map, new_x, new_y)
       THEN LET moved == [g EXCEPT !.player.x = new_x, !.player.y = new_y]
            IN IF <<new_x, new_y>> \in DOMAIN g.current_map.items
               THEN LET item == g.current_map.items[<<new_x, new_y>>]
                        taken == [moved EXCEPT !.current_map.items =
                                      MapRemove(g.current_map.items, <<new_x, new_y>>)]
                        logged == add_message(taken, "Picked up " \o item.name)
                    IN [logged EXCEPT !.player.inventory = Append(@, item)]
               ELSE moved
       ELSE g

\* Game::load_world_npcs
load_world_npcs(g) == [g EXCEPT !.npcs = WorldNpcs]

\* Game::load_town_npcs
load_town_npcs(g, town_id) == [g EXCEPT !.npcs = TownNpcs]

\* load_dungeon_npcs that extends the roster instead of replacing it.
load_dungeon_npcs_merging(g, dungeon_id) == [g EXCEPT !.npcs = @ \o DungeonNpcs]

\* Game::load_dungeon_npcs
load_dungeon_npcs(g, dungeon_id) == [g EXCEPT !.npcs = DungeonNpcs]

\* The fixed entry coordinate of a location entered through a gate tile.
EntryOf(tile) == IF tile = "Town" THEN <<20, 15>> ELSE <<5, 5>>

\* try_enter_location without the `is_enterable` test: a tile that is not a
\* town gate is taken for a dungeon gate.
try_enter_unchecked(g) ==
    LET x == g.player.x
        y == g.player.y
    IN IF g.current_map.map_type # "WorldMap" THEN g
       ELSE LET tile == tiles(g.current_map, x, y)
                id == IF <<x, y>> \in {<<15, 10>>, <<40, 8>>} THEN 0 ELSE 1
                dest == IF tile = "Town" THEN g.town_maps[id + 1] ELSE g.dungeon_maps[id + 1]
                entered == [g EXCEPT !.current_map = dest,
                                     !.player.x = EntryOf(tile)[1],
                                     !.player.y = EntryOf(tile)[2],
                                     !.npcs = IF tile = "Town" THEN TownNpcs ELSE DungeonNpcs,
                                     !.previous_location =
                                         <<[map_type |-> "WorldMap", map_id |-> 0,
                                            x |-> x, y |-> y]>>]
            IN add_message(entered, "Entered " \o dest.name)

\* try_enter_location with the position saved after the player was placed
\* on the entry cell.
try_enter_saving_entry(g) ==
    LET x == g.player.x
        y == g.player.y
    IN IF g.current_map.map_type # "WorldMap" THEN g
       ELSE LET tile == tiles(g.current_map, x, y)
                ex == IF tile = "Town" THEN 20 ELSE 5
                ey == IF tile = "Town" THEN 15 ELSE 5
                id == IF <<x, y>> \in {<<15, 10>>, <<40, 8>>} THEN 0 ELSE 1
                dest == IF tile = "Town" THEN g.town_maps[id + 1] ELSE g.dungeon_maps[id + 1]
                entered == [g EXCEPT !.current_map = dest, !.player.x = ex, !.player.y = ey,
                                     !.npcs = IF tile = "Town" THEN TownNpcs ELSE DungeonNpcs,
                                     !.previous_location =
                                         <<[map_type |-> "WorldMap", map_id |-> 0,
                                            x |-> ex, y |-> ey]>>]
            IN IF ~is_enterable(tile) THEN g
               ELSE add_message(entered, "Entered " \o dest.name)

\* try_enter_location that loads catalog entry 0 from every gate.
try_enter_first_entry(g) ==
    LET x == g.player.x
        y == g.player.y
    IN IF g.current_map.map_type # "WorldMap" THEN g
       ELSE LET tile == tiles(g.current_map, x, y)
                saved == [g EXCEPT !.previous_location =
                              <<[map_type |-> "WorldMap", map_id |-> 0, x |-> x, y |-> y]>>]
            IN IF ~is_enterable(tile) THEN g
               ELSE IF tile = "Town"
               THEN LET entered == [saved EXCEPT !.current_map = g.town_maps[1],
                                                 !.player.x = 20, !.player.y = 15]
                        loaded == load_town_npcs(entered, 0)
                    IN add_message(loaded, "Entered " \o loaded.current_map.name)
               ELSE LET entered == [saved EXCEPT !.current_map = g.dungeon_maps[1],
                                                 !.player.x = 5, !.player.y = 5]
                        loaded == load_dungeon_npcs(entered, 0)
                    IN add_message(loaded, "Entered " \o loaded.current_map.name)

\* Game::try_enter_location
try_enter_location(g) ==
    LET x == g.player.x
        y == g.player.y
    IN IF g.current_map.map_type # "WorldMap" THEN g
       ELSE LET tile == tiles(g.current_map, x, y)
                saved == [g EXCEPT !.previous_location =
                              <<[map_type |-> "WorldMap", map_id |-> 0, x |-> x, y |-> y]>>]
            IN IF ~is_enterable(tile) THEN g
               ELSE IF tile = "Town"
               THEN LET town_id == IF <<x, y>> = <<15, 10>> THEN 0 ELSE 1
                        entered == [saved EXCEPT !.current_map = g.town_maps[town_id + 1],
                                                 !.player.x = 20, !.player.y = 15]
                        loaded == load_town_npcs(entered, town_id)
                    IN add_message(loaded, "Entered " \o loaded.current_map.name)
               ELSE LET dungeon_id == IF <<x, y>> = <<40, 8>> THEN 0 ELSE 1
                        entered == [saved EXCEPT !.current_map = g.dungeon_maps[dungeon_id + 1],
                                                 !.player.x = 5, !.player.y = 5]
                        loaded == load_dungeon_npcs(entered, dungeon_id)
                    IN add_message(loaded, "Entered " \o loaded.current_map.name)

\* return_to_world_map without `self.previous_location = None`.
return_keeping_memory(g) ==
    IF g.current_map.map_type = "WorldMap" THEN g
    ELSE IF g.previous_location = << >> THEN g
    ELSE LET prev_loc == g.previous_location[1]
             back == [g EXCEPT !.current_map = g.world_map,
                               !.player.x = prev_loc.x, !.player.y = prev_loc.y]
         IN add_message(load_world_npcs(back), "Returned to world map")

\* Game::return_to_world_map
return_to_world_map(g) ==
    IF g.current_map.map_type = "WorldMap" THEN g
    ELSE IF g.previous_location = << >> THEN g
    ELSE LET prev_loc == g.previous_location[1]
             back == [g EXCEPT !.current_map = g.world_map,
                               !.player.x = prev_loc.x, !.player.y = prev_loc.y,
                               !.previous_location = << >>]
         IN add_message(load_world_npcs(back), "Returned to world map")

\* Game::update_camera
update_camera(g) == [g EXCEPT !.camera_x = g.player.x - 20, !.camera_y = g.player.y - 10]

\* ------------------------------------------------------ the input section
\* The keys main() polls; the arrow keys are aliases of W, S, A, D.
Keys == {"W", "S", "A", "D", "I", "Space", "Escape", "Enter", "Key1", "Key3"}
\* The "2: Use Item" the combat overlay offers; main() polls no such key.
UseItem == "Key2"
MoveKeys == {"W", "S", "A", "D"}

\* main, GameState::Playing arm: the keys in the order the arm polls them,
\* and what each does when pressed.
PlayingKeys == <<"W", "S", "A", "D", "I", "Space", "Escape">>

PlayingKey(g, key) ==
    CASE key = "W" -> move_player(g, 0, -1)
      [] key = "S" -> move_player(g, 0, 1)
      [] key = "A" -> move_player(g, -1, 0)
      [] key = "D" -> move_player(g, 1, 0)
      [] key = "I" -> [g EXCEPT !.state = Inventory]
      [] key = "Space" -> try_enter_location(g)
      [] key = "Escape" -> return_to_world_map(g)

IfPressed(g, K, key) == IF key \in K THEN PlayingKey(g, key) ELSE g

\* The game after the first n `if is_key_pressed` of the Playing arm.
RECURSIVE PlayingStage(_, _, _)
PlayingStage(g, K, n) ==
    IF n = 0 THEN g ELSE IfPressed(PlayingStage(g, K, n - 1), K, PlayingKeys[n])

PlayingInput(g, K) == PlayingStage(g, K, Len(PlayingKeys))

\* main, GameState::Inventory arm
InventoryInput(g, K) ==
    IF "I" \in K \/ "Escape" \in K THEN [g EXCEPT !.state = Playing] ELSE g

\* main, GameState::Dialogue arm.  a, n and o are npc_idx, node_idx and
\* selected as bound by the match at the start of the frame; g is the game
\* after the keys polled before.
\* DialogueUp that wraps from the first option to the last.
DialogueUpWrapping(g, K, a, n, o) ==
    IF "W" \in K
    THEN [g EXCEPT !.state =
             Dialogue(a, n, IF o > 0 THEN o - 1
                            ELSE Len(g.npcs[a + 1].dialogue[n + 1].options) - 1)]
    ELSE g

DialogueUp(g, K, a, n, o) ==
    IF "W" \in K /\ o > 0 THEN [g EXCEPT !.state = Dialogue(a, n, o - 1)] ELSE g

\* DialogueDown without the `selected + 1 < num_options` test.
DialogueDownUnchecked(g, K, a, n, o, num_options) ==
    IF "S" \in K THEN [g EXCEPT !.state = Dialogue(a, n, o + 1)] ELSE g

DialogueDown(g, K, a, n, o, num_options) ==
    IF "S" \in K /\ o + 1 < num_options
    THEN [g EXCEPT !.state = Dialogue(a, n, o + 1)] ELSE g

\* DialogueConfirm that starts the dialogue over at its end.
DialogueConfirmRestart(g, K, a, o, node) ==
    IF "Space" \in K \/ "Enter" \in K
    THEN IF o >= Len(node.options) THEN [g EXCEPT !.panicked = TRUE]
         ELSE IF node.options[o + 1].next_node # << >>
         THEN [g EXCEPT !.state = Dialogue(a, node.options[o + 1].next_node[1], 0)]
         ELSE [g EXCEPT !.state = Dialogue(a, 0, 0)]
    ELSE g

DialogueConfirm(g, K, a, o, node) ==
    IF "Space" \in K \/ "Enter" \in K
    THEN IF o >= Len(node.options) THEN [g EXCEPT !.panicked = TRUE]
         ELSE IF node.options[o + 1].next_node # << >>
         THEN [g EXCEPT !.state = Dialogue(a, node.options[o + 1].next_node[1], 0)]
         ELSE [g EXCEPT !.state = Playing]
    ELSE g

\* DialogueEscape that logs a farewell.
DialogueEscapeFarewell(g, K) ==
    IF "Escape" \in K /\ ~g.panicked
    THEN add_message([g EXCEPT !.state = Playing], "Goodbye!") ELSE g

DialogueEscape(g, K) ==
    IF "Escape" \in K /\ ~g.panicked THEN [g EXCEPT !.state = Playing] ELSE g

DialogueNodeInput(g, K, a, n, o, node) ==
    DialogueEscape(
        DialogueConfirm(
            DialogueDown(DialogueUp(g, K, a, n, o), K, a, n, o, Len(node.options)),
            K, a, o, node),
        K)

DialogueInput(g, K) ==
    IF g.state.npc_idx >= Len(g.npcs)
       \/ g.state.node_idx >= Len(g.npcs[g.state.npc_idx + 1].dialogue)
    THEN [g EXCEPT !.panicked = TRUE]
    ELSE DialogueNodeInput(g, K, g.state.npc_idx, g.state.node_idx, g.state.selected,
                           g.npcs[g.state.npc_idx + 1].dialogue[g.state.node_idx + 1])

\* Attack that a player without health left cannot make.
AttackWhileAlive(g, npc_idx) ==
    LET hit == [g EXCEPT !.npcs[npc_idx + 1].hp = @ - damage]
        told == add_message(hit, "You dealt " \o ToString(damage) \o " damage!")
    IN IF g.player.hp <= 0 THEN g
       ELSE IF told.npcs[npc_idx + 1].hp <= 0
       THEN LET won == add_message(told, told.npcs[npc_idx + 1].name \o " defeated!")
            IN [won EXCEPT !.npcs = RemoveAt(won.npcs, npc_idx), !.state = Playing]
       ELSE add_message([told EXCEPT !.player.hp = @ - enemy_damage],
                        "Enemy dealt " \o ToString(enemy_damage) \o " damage!")

\* Attack without `game.state = GameState::Playing` after the removal.
AttackKeepsCombat(g, npc_idx) ==
    LET hit == [g EXCEPT !.npcs[npc_idx + 1].hp = @ - damage]
        told == add_message(hit, "You dealt " \o ToString(damage) \o " damage!")
    IN IF told.npcs[npc_idx + 1].hp <= 0
       THEN LET won == add_message(told, told.npcs[npc_idx + 1].name \o " defeated!")
            IN [won EXCEPT !.npcs = RemoveAt(won.npcs, npc_idx)]
       ELSE add_message([told EXCEPT !.player.hp = @ - enemy_damage],
                        "Enemy dealt " \o ToString(enemy_damage) \o " damage!")

\* Attack whose counter-attack is logged but does not lower the player's health.
AttackNoCounter(g, npc_idx) ==
    LET hit == [g EXCEPT !.npcs[npc_idx + 1].hp = @ - damage]
        told == add_message(hit, "You dealt " \o ToString(damage) \o " damage!")
    IN IF told.npcs[npc_idx + 1].hp <= 0
       THEN LET won == add_message(told, told.npcs[npc_idx + 1].name \o " defeated!")
            IN [won EXCEPT !.npcs = RemoveAt(won.npcs, npc_idx), !.state = Playing]
       ELSE add_message(told, "Enemy dealt " \o ToString(enemy_damage) \o " damage!")

\* Attack that leaves the defeated target in the roster.
AttackLeavesDefeated(g, npc_idx) ==
    LET hit == [g EXCEPT !.npcs[npc_idx + 1].hp = @ - damage]
        told == add_message(hit, "You dealt " \o ToString(damage) \o " damage!")
    IN IF told.npcs[npc_idx + 1].hp <= 0
       THEN [add_message(told, told.npcs[npc_idx + 1].name \o " defeated!")
                EXCEPT !.state = Playing]
       ELSE add_message([told EXCEPT !.player.hp = @ - enemy_damage],
                        "Enemy dealt " \o ToString(enemy_damage) \o " damage!")

\* main, GameState::Combat arm, option 1 (Attack)
Attack(g, npc_idx) ==
    LET hit == [g EXCEPT !.npcs[npc_idx + 1].hp = @ - damage]
        told == add_message(hit, "You dealt " \o ToString(damage) \o " damage!")
    IN IF told.npcs[npc_idx + 1].hp <= 0
       THEN LET won == add_message(told, told.npcs[npc_idx + 1].name \o " defeated!")
            IN [won EXCEPT !.npcs = RemoveAt(won.npcs, npc_idx), !.state = Playing]
       ELSE add_message([told EXCEPT !.player.hp = @ - enemy_damage],
                        "Enemy dealt " \o ToString(enemy_damage) \o " damage!")

\* Run without `game.state = GameState::Playing`.
RunKeepsCombat(g) == add_message(g, "You ran away!")

\* main, GameState::Combat arm, option 3 (Run)
Run(g) == [add_message(g, "You ran away!") EXCEPT !.state = Playing]

\* main, GameState::Combat arm; npc_idx is the value bound at the start of
\* the frame.
IfAttack(g, K, npc_idx) == IF "Key1" \in K THEN Attack(g, npc_idx) ELSE g

IfRun(g, K) == IF "Key3" \in K THEN Run(g) ELSE g

\* The Combat arm with Escape handled as a flight.
CombatInputEscapable(g, K) ==
    IF "Key1" \in K /\ g.state.npc_idx >= Len(g.npcs) THEN [g EXCEPT !.panicked = TRUE]
    ELSE IF "Escape" \in K THEN Run(IfAttack(g, K, g.state.npc_idx))
    ELSE IfRun(IfAttack(g, K, g.state.npc_idx), K)

\* The Combat arm with option 2 (Use Item) handled: the first item of the
\* inventory is consumed.
CombatInputUsingItem(g, K) ==
    IF "Key1" \in K /\ g.state.npc_idx >= Len(g.npcs) THEN [g EXCEPT !.panicked = TRUE]
    ELSE IF UseItem \in K /\ g.player.inventory # << >>
    THEN IfRun(IfAttack([g EXCEPT !.player.inventory = Tail(@)], K, g.state.npc_idx), K)
    ELSE IfRun(IfAttack(g, K, g.state.npc_idx), K)

\* main, GameState::Combat arm
CombatInput(g, K) ==
    IF "Key1" \in K /\ g.state.npc_idx >= Len(g.npcs) THEN [g EXCEPT !.panicked = TRUE]
    ELSE IfRun(IfAttack(g, K, g.state.npc_idx), K)

\* The overlay drawn at the end of the frame indexes the roster and the
\* dialogue graph with the mode's payload: an index out of range panics.
Draw(g) ==
    IF g.panicked THEN g
    ELSE IF g.state.tag = "Dialogue"
    THEN IF g.state.npc_idx >= Len(g.npcs)
            \/ g.state.node_idx >= Len(g.npcs[g.state.npc_idx + 1].dialogue)
         THEN [g EXCEPT !.panicked = TRUE] ELSE g
    ELSE IF g.state.tag = "Combat"
    THEN IF g.state.npc_idx >= Len(g.npcs) THEN [g EXCEPT !.panicked = TRUE] ELSE g
    ELSE g

\* main: the match on game.state at the start of the frame
Input(g, K) ==
    IF g.state.tag = "Playing" THEN PlayingInput(g, K)
    ELSE IF g.state.tag = "Inventory" THEN InventoryInput(g, K)
    ELSE IF g.state.tag = "Dialogue" THEN DialogueInput(g, K)
    ELSE CombatInput(g, K)

\* main: one iteration of the loop with the keys K pressed
EndOfFrame(g) == IF g.panicked THEN g ELSE Draw(update_camera(g))

Frame(g, K) == EndOfFrame(Input(g, K))

\* ------------------------------------------------------ the player's hands
\* The key sets a frame may carry.
KeySets == {K \in SUBSET Keys : Cardinality(K) <= MaxKeys}

\* n presses of key k, one per frame
Rep(k, n) == [i \in 1..n |-> k]

\* The frames of a key script, one key per frame, from g.
RECURSIVE Play(_, _)
Play(g, keys) ==
    IF keys = << >> THEN g ELSE Play(Frame(g, {Head(keys)}), Tail(keys))

\* The walks the player takes in one go: on a map of kind `map`, from the
\* cell `from`, the key script `keys`.  The places on the overworld: the
\* start (40,20), the cell east of the merchant (36,20), the northern edge
\* of the map (40,0), the dungeon gates
\* (40,8) and (25,30), the town gates (50,25) and (15,10), and the halts
\* (28,10) and (32,29) on the way to the far gates; in a dungeon: the entry
\* (5,5), the cell west of the guard (9,10) and the cell west of the beast
\* (24,15); in a town: the entry (20,15), the cell east of the townfolk
\* (16,15) and the cell east of the blacksmith's building (15,8).
Route(map, from, keys) == [map |-> map, from |-> from, keys |-> keys]

Routes ==
    { Route("WorldMap", <<40, 20>>, Rep("A", 4)),
      Route("WorldMap", <<36, 20>>, Rep("D", 4)),
      Route("WorldMap", <<40, 20>>, Rep("W", 12)),
      Route("WorldMap", <<40, 8>>, Rep("S", 12)),
      Route("WorldMap", <<40, 8>>, Rep("W", 8)),
      Route("WorldMap", <<40, 0>>, Rep("S", 8)),
      Route("WorldMap", <<40, 20>>, Rep("D", 10) \o Rep("S", 5)),
      Route("WorldMap", <<50, 25>>, Rep("W", 5) \o Rep("A", 10)),
      Route("WorldMap", <<40, 8>>, Rep("S", 2) \o Rep("A", 12)),
      Route("WorldMap", <<28, 10>>, Rep("D", 12) \o Rep("W", 2)),
      Route("WorldMap", <<28, 10>>, Rep("A", 13)),
      Route("WorldMap", <<15, 10>>, Rep("D", 13)),
      Route("WorldMap", <<40, 20>>, Rep("S", 9) \o Rep("A", 8)),
      Route("WorldMap", <<32, 29>>, Rep("D", 8) \o Rep("W", 9)),
      Route("WorldMap", <<32, 29>>, Rep("A", 7) \o Rep("S", 1)),
      Route("WorldMap", <<25, 30>>, Rep("W", 1) \o Rep("D", 7)),
      Route("Dungeon", <<5, 5>>, Rep("S", 5) \o Rep("D", 4)),
      Route("Dungeon", <<9, 10>>, Rep("A", 4) \o Rep("W", 5)),
      Route("Dungeon", <<9, 10>>, Rep("S", 5) \o Rep("D", 15)),
      Route("Dungeon", <<24, 15>>, Rep("A", 15) \o Rep("W", 5)),
      Route("Town", <<20, 15>>, Rep("A", 4)),
      Route("Town", <<16, 15>>, Rep("D", 3)),
      Route("Town", <<19, 15>>, Rep("A", 3)),
      Route("Town", <<16, 15>>, Rep("W", 7) \o Rep("A", 1)),
      Route("Town", <<15, 8>>, Rep("D", 1) \o Rep("S", 7)) }

\* The cells the player is steered over frame by frame, per map kind, as
\* inclusive rectangles <<x1, x2, y1, y2>> around the places above.
Lanes(map_type) ==
    IF map_type = "WorldMap"
    THEN {<<40, 40, 20, 20>>, <<36, 37, 20, 20>>, <<40, 40, 8, 9>>, <<50, 50, 25, 25>>,
          <<15, 15, 10, 10>>, <<25, 25, 30, 30>>, <<28, 28, 10, 10>>, <<32, 32, 29, 29>>,
          <<40, 40, 0, 0>>}
    ELSE IF map_type = "Town"
    THEN {<<19, 20, 15, 15>>, <<16, 16, 15, 15>>, <<15, 15, 8, 8>>}
    ELSE {<<5, 5, 5, 6>>, <<8, 9, 10, 10>>, <<24, 24, 15, 15>>}

\* The lanes of a map: the far locations, Town #1 behind the gate (15,10) and
\* Dungeon #2 behind the gate (25,30), are visited at their entry only.
LanesOf(m) ==
    IF m.name = "Town #1" THEN {<<20, 20, 15, 15>>}
    ELSE IF m.name = "Dungeon #2" THEN {<<5, 5, 5, 5>>}
    ELSE Lanes(m.map_type)

\* The cells of a long fight: beside the guard, the dungeon gate, and the
\* dungeon's entry.
FightLanes(map_type) ==
    IF map_type = "WorldMap" THEN {<<40, 40, 8, 8>>}
    ELSE IF map_type = "Dungeon" THEN {<<8, 9, 10, 10>>, <<5, 5, 5, 5>>}
    ELSE {}

OnLane(g, lanes) ==
    \E r \in lanes :
        /\ g.player.x >= r[1] - Roam /\ g.player.x <= r[2] + Roam
        /\ g.player.y >= r[3] - Roam /\ g.player.y <= r[4] + Roam

\* The opening of a session: frames are taken while the welcome message is
\* still on the log (so at most MaxMessages appends lie behind a state), and
\* leave the player on a lane.
Opening(g, after) ==
    /\ \E i \in 1..Len(g.messages) : g.messages[i] = WelcomeMsg
    /\ OnLane(after, LanesOf(after.current_map))

\* A long fight: frames leave the player beside the guard, on the gate or on
\* the entry, with at most MaxInventory items picked up.
Fighting(g, after) ==
    /\ OnLane(after, FightLanes(after.current_map.map_type))
    /\ Len(after.player.inventory) <= MaxInventory

\* The steering of a step: of the long fight, or of the opening.
Steer(fight, g, after) == IF fight THEN Fighting(g, after) ELSE Opening(g, after)

\* The step of the machine that is the frame with keys K.
Took(K) == game' = Frame(game, K)

\* main, one iteration of the loop in each mode
PlayingFrame(fight) ==
    /\ ~game.panicked /\ game.state.tag = "Playing"
    /\ \E K \in KeySets : Took(K) /\ Steer(fight, game, game')

InventoryFrame(fight) ==
    /\ ~game.panicked /\ game.state.tag = "Inventory"
    /\ \E K \in KeySets : Took(K) /\ Steer(fight, game, game')

DialogueFrame(fight) ==
    /\ ~game.panicked /\ game.state.tag = "Dialogue"
    /\ \E K \in KeySets : Took(K) /\ Steer(fight, game, game')

CombatFrame(fight) ==
    /\ ~game.panicked /\ game.state.tag = "Combat"
    /\ \E K \in KeySets : Took(K) /\ Steer(fight, game, game')

\* A walk: the frames of a route's key script, taken while Playing.
Travel ==
    /\ ~game.panicked
    /\ game.state.tag = "Playing"
    /\ \E r \in Routes :
        /\ game.current_map.map_type = r.map
        /\ <<game.player.x, game.player.y>> = r.from
        /\ game' = Play(game, r.keys)
        /\ Opening(game, game')

\* A session from Game::new.
Init == game = NewGame

Next ==
    \/ PlayingFrame(FALSE)
    \/ InventoryFrame(FALSE)
    \/ DialogueFrame(FALSE)
    \/ CombatFrame(FALSE)
    \/ Travel

Spec == Init /\ [][Next]_vars

\* The game once the player has walked from the start to the dungeon gate
\* (40,8), entered Dungeon #1 and walked to the cell west of the guard.
AtGuard ==
    Play(NewGame, Rep("W", 12) \o <<"Space">> \o Rep("S", 5) \o Rep("D", 4))

InitFight == game = AtGuard

NextFight ==
    \/ PlayingFrame(TRUE)
    \/ InventoryFrame(TRUE)
    \/ CombatFrame(TRUE)

SpecFight == InitFight /\ [][NextFight]_vars

\* The game once the player, from beside the guard, has defeated it (six
\* Attacks, five counter-attacks), returned to the overworld, entered
\* Dungeon #1 again and walked to the cell west of the guard: a rematch
\* against the restored guard with half the health left.
AtRematch ==
    Play(Play(Play(AtGuard, <<"D">> \o Rep("Key1", 6)),
              <<"Escape", "Space">>),
         Rep("S", 5) \o Rep("D", 4))

InitRematch == game = AtRematch

SpecRematch == InitRematch /\ [][NextFight]_vars

\* ------------------------------------------------------------- properties
Last(s) == s[Len(s)]

\* The number of indices of sequence s holding v.
Count(s, v) == Cardinality({i \in 1..Len(s) : s[i] = v})

\* C1: whenever the mode is Dialogue(a, n, o), a is an index into the roster,
\* n an index into that actor's dialogue graph, and o is less than the
\* number of options of node n.
C1_DialoguePayloadValid ==
    game.state.tag = "Dialogue" =>
        /\ game.state.npc_idx < Len(game.npcs)
        /\ game.state.node_idx < Len(game.npcs[game.state.npc_idx + 1].dialogue)
        /\ game.state.selected <
             Len(game.npcs[game.state.npc_idx + 1].dialogue[game.state.node_idx + 1].options)

\* A dialogue with the townfolk, in a town, that has advanced to node 2.
C1_Witness ==
    /\ game.state.tag = "Dialogue"
    /\ game.current_map.map_type = "Town"
    /\ game.state.node_idx = 2

\* C2: whenever the mode is Combat(a), a is an index into the roster and the
\* actor at that index is hostile.
C2_CombatTargetHostile ==
    game.state.tag = "Combat" =>
        /\ game.state.npc_idx < Len(game.npcs)
        /\ game.npcs[game.state.npc_idx + 1].hostile

\* C3: an item held by the player is held once and lies on no grid the
\* player can walk: the inventory never holds two copies of a ground item,
\* and a picked-up item is not on the active grid.
C3_ItemSingleOwner ==
    \A i \in 1..Len(game.player.inventory) :
        /\ Count(game.player.inventory, game.player.inventory[i]) = 1
        /\ \A p \in DOMAIN game.current_map.items :
               game.current_map.items[p] # game.player.inventory[i]

\* C4: the LocationMemory (previous_location) is present if and only if the
\* active grid's kind is not the overworld.
C4_MemoryIffNotOverworld ==
    (game.previous_location # << >>) <=> (game.current_map.map_type # "WorldMap")

\* Back on the overworld after a return, the memory cleared.
C4_Witness ==
    /\ game.current_map.map_type = "WorldMap"
    /\ Last(game.messages) = "Returned to world map"
    /\ game.previous_location = << >>

\* The (dx, dy) of a move key.
Delta(d) ==
    CASE d = "W" -> <<0, -1>> [] d = "S" -> <<0, 1>> [] d = "A" -> <<-1, 0>> [] d = "D" -> <<1, 0>>

\* The cell a move key aims at.
Target(d) == <<game.player.x + Delta(d)[1], game.player.y + Delta(d)[2]>>

\* K carries the move key d and no other key the Playing arm polls.
OnlyMove(K, d) == K \cap {PlayingKeys[i] : i \in 1..Len(PlayingKeys)} = {d}

\* The player's cell, the active grid and the roster.
Place(g) == <<g.player.x, g.player.y, g.current_map, g.npcs>>

\* C5: every change of the player's position, the active grid or the roster
\* by a move or a location transition happens while the mode is Playing:
\* within a frame of the Playing arm, once the mode is no longer Playing no
\* later key of the frame changes them, and a frame of another arm changes
\* neither the player's position nor the active grid.
C5_MovesOnlyWhilePlaying ==
    \A K \in KeySets : ~game.panicked =>
          /\ game.state.tag = "Playing" =>
                \A n \in 1..Len(PlayingKeys) :
                    PlayingStage(game, K, n - 1).state.tag # "Playing" =>
                        Place(PlayingStage(game, K, n)) = Place(PlayingStage(game, K, n - 1))
          /\ game.state.tag # "Playing" =>
                /\ Frame(game, K).player.x = game.player.x
                /\ Frame(game, K).player.y = game.player.y
                /\ Frame(game, K).current_map = game.current_map

\* C6: a move whose target cell is occupied by a roster actor leaves the
\* player where it stands and sets the mode to Combat(index of that actor)
\* if the actor is hostile, to Dialogue(index, 0, 0) otherwise.
C6_EncounterBlocksMove ==
    \A d \in MoveKeys : \A K \in KeySets :
          ( /\ ~game.panicked
            /\ game.state.tag = "Playing"
            /\ NpcPosition(game, Target(d)[1], Target(d)[2]) # << >>
            /\ OnlyMove(K, d) ) =>
          LET a == NpcPosition(game, Target(d)[1], Target(d)[2])[1]
          IN /\ Frame(game, K).player.x = game.player.x
             /\ Frame(game, K).player.y = game.player.y
             /\ Frame(game, K).state = IF game.npcs[a + 1].hostile THEN Combat(a)
                                       ELSE Dialogue(a, 0, 0)

\* Beside the guard, the move onto its cell having started the combat.
C6_Witness ==
    /\ game.state = Combat(0)
    /\ <<game.player.x, game.player.y>> = <<9, 10>>
    /\ game.npcs[1].x = 10 /\ game.npcs[1].y = 10 /\ game.npcs[1].hostile
    /\ Last(game.messages) = "Combat with Dungeon Guard!"

\* C7: after a successful move onto a cell holding a ground item, the cell
\* is absent from the active grid's items, the inventory is one longer, and
\* the picked-up item is in the inventory exactly once.
C7_PickupExactlyOnce ==
    \A K \in KeySets : \A d \in MoveKeys :
          ( /\ ~game.panicked
            /\ game.state.tag = "Playing"
            /\ OnlyMove(K, d)
            /\ NpcPosition(game, Target(d)[1], Target(d)[2]) = << >>
            /\ is_walkable(game.current_map, Target(d)[1], Target(d)[2])
            /\ Target(d) \in DOMAIN game.current_map.items ) =>
          /\ Target(d) \notin DOMAIN Frame(game, K).current_map.items
          /\ Len(Frame(game, K).player.inventory) = Len(game.player.inventory) + 1
          /\ Count(Frame(game, K).player.inventory, game.current_map.items[Target(d)]) = 1

\* The number of Attacks that bring a health of h to zero or below.
AttacksToDefeat(h) == (h + damage - 1) \div damage

\* C8: in Combat(a) an Attack lowers the target's health by exactly 15.  If
\* the result is positive the target stays in the roster and the mode stays
\* Combat(a) (unless the same frame also flees), and one Attack fewer is
\* needed to defeat it; otherwise the target is removed from the roster, the
\* other actors keep their order, and the mode is Playing.
C8_AttackStep ==
    \A K \in KeySets :
          ( /\ ~game.panicked
            /\ game.state.tag = "Combat"
            /\ game.state.npc_idx < Len(game.npcs)
            /\ "Key1" \in K ) =>
          LET a == game.state.npc_idx
              h == game.npcs[a + 1].hp
          IN IF h - 15 > 0
             THEN /\ Frame(game, K).npcs = [game.npcs EXCEPT ![a + 1].hp = h - 15]
                  /\ "Key3" \notin K => Frame(game, K).state = Combat(a)
                  /\ AttacksToDefeat(h - 15) = AttacksToDefeat(h) - 1
             ELSE /\ Len(Frame(game, K).npcs) = Len(game.npcs) - 1
                  /\ \A i \in 1..Len(Frame(game, K).npcs) :
                         Frame(game, K).npcs[i] = game.npcs[IF i <= a THEN i ELSE i + 1]
                  /\ Frame(game, K).state = Playing
                  /\ AttacksToDefeat(h) = 1

\* The guard defeated: removed from the roster, the mode back to Playing.
C8_Witness ==
    /\ game.state = Playing
    /\ Last(game.messages) = "Dungeon Guard defeated!"
    /\ Len(game.npcs) = 1
    /\ game.npcs[1].name = "Mutant Beast"

\* The game after two frames that press Attack.
TwoAttacks(g) == Frame(Frame(g, {"Key1"}), {"Key1"})

\* A combat against a hostile actor with 80 health has started.
CombatStarted80 ==
    /\ ~game.panicked
    /\ game.state.tag = "Combat"
    /\ game.state.npc_idx < Len(game.npcs)
    /\ game.npcs[game.state.npc_idx + 1].hostile
    /\ game.npcs[game.state.npc_idx + 1].hp = 80

\* C9 as stated: after exactly two Attacks the actor has 50 health and the
\* player's health is lowered by 10.
C9_TwoAttacksOneCounter ==
    CombatStarted80 =>
        /\ TwoAttacks(game).npcs[game.state.npc_idx + 1].hp = 50
        /\ TwoAttacks(game).player.hp = game.player.hp - 10

\* C9 amended: after exactly two Attacks the actor has 50 health and the
\* player has taken two counter-attacks, its health lowered by 20.
C9_TwoAttacksTwoCounters ==
    CombatStarted80 =>
        /\ TwoAttacks(game).npcs[game.state.npc_idx + 1].hp = 50
        /\ TwoAttacks(game).player.hp = game.player.hp - 20
        /\ TwoAttacks(game).state = game.state

\* The guard at 50 of 80 health after two exchanges, the player at 80 of 100.
C9_Witness ==
    /\ game.state = Combat(0)
    /\ game.npcs[1].max_hp = 80 /\ game.npcs[1].hp = 50
    /\ game.player.hp = 80
    /\ game.messages = <<"Combat with Dungeon Guard!", "You dealt 15 damage!",
                         "Enemy dealt 10 damage!", "You dealt 15 damage!",
                         "Enemy dealt 10 damage!">>

\* C10: a Flee in Combat(a) sets the mode to Playing and logs "You ran
\* away!"; unless the same frame also attacks, the roster (every actor's
\* index and health) and the player are unchanged.  A later move onto the
\* actor's cell leaves the roster unchanged too, so the encounter resumes
\* from the health the earlier Attacks left.
C10_FleeKeepsTarget ==
    \A K \in KeySets :
          /\ (~game.panicked /\ game.state.tag = "Combat" /\ "Key3" \in K) =>
                /\ Frame(game, K).state = Playing
                /\ Last(Frame(game, K).messages) = "You ran away!"
                /\ "Key1" \notin K =>
                      /\ Frame(game, K).npcs = game.npcs
                      /\ Frame(game, K).player = game.player
          /\ \A d \in MoveKeys :
                ( /\ ~game.panicked
                  /\ game.state.tag = "Playing"
                  /\ OnlyMove(K, d)
                  /\ NpcPosition(game, Target(d)[1], Target(d)[2]) # << >> ) =>
                Frame(game, K).npcs = game.npcs

\* A combat resumed after a flight, against the guard at reduced health.
C10_Witness ==
    /\ game.state = Combat(0)
    /\ game.npcs[1].name = "Dungeon Guard"
    /\ game.npcs[1].hp < game.npcs[1].max_hp
    /\ Len(game.messages) = MaxMessages
    /\ game.messages[MaxMessages - 1] = "You ran away!"
    /\ game.messages[MaxMessages] = "Combat with Dungeon Guard!"

\* The enterable cells of the overworld.
Gates ==
    {p \in (0..(new_world_map.width - 1)) \X (0..(new_world_map.height - 1)) :
        is_enterable(WorldTile(p[1], p[2]))}

\* C11: with the player on a gate cell g of the overworld, try_enter places
\* the player on the entered map's entry coordinate with the memory
\* {Overworld, 0, g.x, g.y}; return_to_overworld right after it leaves the
\* player at g, the active grid equal to the cached overworld grid, the
\* roster equal to the overworld roster and the memory absent.
C11_EnterReturnRoundTrip ==
    ( /\ ~game.panicked
      /\ game.current_map.map_type = "WorldMap"
      /\ <<game.player.x, game.player.y>> \in Gates ) =>
    LET gate == <<game.player.x, game.player.y>>
        mid == try_enter_location(game)
        back == return_to_world_map(mid)
    IN /\ mid.current_map.map_type # "WorldMap"
       /\ <<mid.player.x, mid.player.y>> = EntryOf(WorldTile(gate[1], gate[2]))
       /\ mid.previous_location =
              <<[map_type |-> "WorldMap", map_id |-> 0, x |-> gate[1], y |-> gate[2]]>>
       /\ <<back.player.x, back.player.y>> = gate
       /\ back.current_map = game.world_map
       /\ back.npcs = WorldNpcs
       /\ back.previous_location = << >>

\* Back on the town gate (15,10) after entering Town #1 and returning.
C11_Witness ==
    /\ game.current_map.map_type = "WorldMap"
    /\ <<game.player.x, game.player.y>> = <<15, 10>>
    /\ game.previous_location = << >>
    /\ game.messages = <<WelcomeMsg, "Entered Town #1", "Returned to world map">>

\* try_enter is permitted: the active grid is the overworld and the player
\* stands on an enterable tile.
MayEnter(g) ==
    /\ g.current_map.map_type = "WorldMap"
    /\ tiles(g.current_map, g.player.x, g.player.y) \in {"Town", "Dungeon"}

\* C12: try_enter changes the state only when the active grid is the
\* overworld and the player's tile is a town or dungeon gate, and otherwise
\* leaves the whole state as it is; return_to_overworld leaves the whole
\* state as it is when the active grid is the overworld.  A Playing frame
\* that presses only Space, or only Escape, in such a state is the frame
\* with no key.
C12_TransitionGuards ==
    ~game.panicked =>
        /\ try_enter_location(game) # game => MayEnter(game)
        /\ ~MayEnter(game) => try_enter_location(game) = game
        /\ game.current_map.map_type = "WorldMap" => return_to_world_map(game) = game
        /\ (game.state = Playing /\ ~MayEnter(game)) =>
               Frame(game, {"Space"}) = Frame(game, {})
        /\ (game.state = Playing /\ game.current_map.map_type = "WorldMap") =>
               Frame(game, {"Escape"}) = Frame(game, {})

\* In a town, Playing, off the entry cell: Enter has nothing to act on.
C12_Witness ==
    /\ game.state = Playing
    /\ game.current_map.map_type = "Town"
    /\ <<game.player.x, game.player.y>> = <<16, 15>>
    /\ ~MayEnter(game)
    /\ try_enter_location(game) = game

\* C13: the catalog grids (the cached overworld grid, every town grid, every
\* dungeon grid) equal their initial values in every reachable state, and a
\* location entered from a gate is handed out with its initial item set,
\* whatever was picked up there before.
C13_CatalogPristine ==
    /\ game.world_map = new_world_map
    /\ game.town_maps = <<new_town_map(0), new_town_map(1)>>
    /\ game.dungeon_maps = <<new_dungeon_map(0), new_dungeon_map(1)>>
    /\ (~game.panicked /\ MayEnter(game)) =>
           try_enter_location(game).current_map \in
               {new_town_map(0), new_town_map(1), new_dungeon_map(0), new_dungeon_map(1)}

\* In Dungeon #1 with the chest picked up from the active grid: the grid has
\* no item left while the catalog's Dungeon #1 still holds the chest.
C13_Witness ==
    /\ game.current_map.name = "Dungeon #1"
    /\ DOMAIN game.current_map.items = {}
    /\ game.player.inventory = <<TreasureChest>>
    /\ DOMAIN game.dungeon_maps[1].items = {<<5, 5>>}

\* The fixed roster of a map kind.
RosterOf(map_type) ==
    IF map_type = "WorldMap" THEN WorldNpcs
    ELSE IF map_type = "Town" THEN TownNpcs
    ELSE DungeonNpcs

\* C14: whenever the active grid changes to another map, the roster is
\* the fixed roster of the map entered, every actor at its initial health
\* and position, whatever was defeated or damaged there before: for Enter on
\* a gate, for Return from a location, and for every frame that ends on
\* another map than it started on.
C14_RosterReplaced ==
    ~game.panicked =>
        /\ MayEnter(game) =>
               try_enter_location(game).npcs =
                   RosterOf(try_enter_location(game).current_map.map_type)
        /\ game.current_map.map_type # "WorldMap" =>
               return_to_world_map(game).npcs = WorldNpcs
        /\ \A K \in KeySets :
               Frame(game, K).current_map.name # game.current_map.name =>
                   Frame(game, K).npcs = RosterOf(Frame(game, K).current_map.map_type)

\* Dungeon #1 entered again after its guard was defeated: the full roster.
C14_Witness ==
    /\ game.current_map.name = "Dungeon #1"
    /\ game.npcs = DungeonNpcs
    /\ game.messages = <<"Enemy dealt 10 damage!", "You dealt 15 damage!",
                         "Dungeon Guard defeated!", "Returned to world map",
                         "Entered Dungeon #1">>

\* Texts to append: one that is new to the log, and the log's own newest
\* and oldest entries.
Appended == {"Returned to world map", Last(game.messages), Head(game.messages)}

\* C15: the message log holds at most 5 entries in every reachable state;
\* appending to a log of 5 entries drops exactly the oldest entry and keeps
\* the other four in order, followed by the new entry, also when the new
\* entry repeats one of the log; appending to a shorter log drops nothing.
C15_LogBoundedFifo ==
    /\ Len(game.messages) <= 5
    /\ \A msg \in Appended :
           LET after == add_message(game, msg).messages
           IN IF Len(game.messages) = 5
              THEN /\ Len(after) = 5
                   /\ \A i \in 1..4 : after[i] = game.messages[i + 1]
                   /\ after[5] = msg
              ELSE after = game.messages \o <<msg>>

\* A full log of the exchanges of a fight, the same texts alternating.
C15_Witness ==
    /\ Len(game.messages) = 5
    /\ game.messages[1] = "Enemy dealt 10 damage!"
    /\ game.messages[3] = game.messages[1] /\ game.messages[5] = game.messages[1]
    /\ game.messages[2] = "You dealt 15 damage!"
    /\ game.messages[4] = game.messages[2]

\* C16: commands that mean nothing in the current mode are ignored.  In
\* Inventory a frame without I and Escape leaves the whole state unchanged;
\* in Combat a frame without Attack (Key1) and Flee (Key3) leaves the whole
\* state unchanged, whatever else is pressed (Escape, moves, Use Item); in
\* Dialogue a frame of Attack, Use Item, Flee, I and the sideways moves
\* leaves the whole state unchanged, and no frame moves the player.
C16_IgnoredCommands ==
    (~game.panicked /\ game.state.tag # "Playing") =>
        \A K \in KeySets : \A P \in {K, K \cup {UseItem}} :
            /\ (game.state.tag = "Inventory" /\ P \cap {"I", "Escape"} = {}) =>
                   Frame(game, P) = game
            /\ (game.state.tag = "Combat" /\ P \cap {"Key1", "Key3"} = {}) =>
                   Frame(game, P) = game
            /\ ( /\ game.state.tag = "Dialogue"
                 /\ P \subseteq {"Key1", UseItem, "Key3", "I", "A", "D"} ) =>
                   Frame(game, P) = game
            /\ game.state.tag = "Dialogue" =>
                   /\ Frame(game, P).player = game.player
                   /\ Frame(game, P).state.tag \in {"Dialogue", "Playing"}

\* In combat with the guard already hurt: Escape and a move change nothing.
C16_Witness ==
    /\ game.state = Combat(0)
    /\ game.npcs[1].name = "Dungeon Guard"
    /\ game.npcs[1].hp = 65
    /\ Frame(game, {"Escape", "A", UseItem}) = game

\* The command that leaves a mode: close in Inventory, Cancel in Dialogue,
\* Flee in Combat.
ExitKey(tag) ==
    IF tag = "Inventory" THEN "I" ELSE IF tag = "Dialogue" THEN "Escape" ELSE "Key3"

\* C17: the initial mode is Playing and no mode is terminal: in every
\* reachable state whose mode is not Playing the program is running, and
\* the frame of the mode's leaving command ends in Playing.
C17_NoTerminalMode ==
    /\ NewGame.state = Playing
    /\ game.state.tag # "Playing" =>
           /\ ~game.panicked
           /\ Frame(game, {ExitKey(game.state.tag)}).state = Playing
           /\ ~Frame(game, {ExitKey(game.state.tag)}).panicked

\* The location rosters.
Rosters == {WorldNpcs, TownNpcs, DungeonNpcs}

\* A dialogue with actor a of a roster, started at node 0.
Talk(roster, a) == [NewGame EXCEPT !.npcs = roster, !.state = Dialogue(a, 0, 0)]

\* The selection moves before a Confirm: up to MaxDowns frames of Down (the
\* last ones against the end of the list), then up to one frame of Up.
MaxDowns == 3
Choices == {Rep("S", k) \o Rep("W", u) : k \in 0..MaxDowns, u \in 0..1}

\* Every way of choosing and confirming from g is back in Playing after at
\* most n Confirms, without a panic and without a node in `seen` visited.
RECURSIVE Ends(_, _, _)
Ends(g, n, seen) ==
    /\ ~g.panicked
    /\ g.state.tag \in {"Dialogue", "Playing"}
    /\ g.state.tag = "Dialogue" =>
           /\ n > 0
           /\ g.state.node_idx \notin seen
           /\ \A c \in Choices :
                  Ends(Play(g, c \o <<"Enter">>), n - 1, seen \cup {g.state.node_idx})

\* C18: for every actor of every location roster a dialogue started at node
\* 0 is back in Playing after at most 2 Confirms, whatever is selected
\* before each, and visits no node twice (the rosters are fixed, so this is
\* settled once, at the start of the session); so is every dialogue of a
\* reachable state at node 0.
C18_DialogueTerminates ==
    /\ game = NewGame =>
           \A roster \in Rosters : \A a \in 0..(Len(roster) - 1) :
               Ends(Talk(roster, a), 2, {})
    /\ (~game.panicked /\ game.state.tag = "Dialogue" /\ game.state.node_idx = 0) =>
           Ends(game, 2, {})

\* The merchant's dialogue at its node 2, one Confirm from its end.
C18_Witness ==
    /\ game.state = Dialogue(0, 2, 0)
    /\ game.npcs[1].name = "Traveling Merchant"
    /\ Frame(game, {"Enter"}).state = Playing

\* The coordinates of map m with a margin of Margin cells around it.
Margin == 2
Around(m) == ((0 - Margin)..(m.width + Margin - 1)) \X ((0 - Margin)..(m.height + Margin - 1))

\* is_walkable on map m is false outside the bounds and the walkable
\* property of the terrain kind inside.
WalkableAsStated(m, p) ==
    is_walkable(m, p[1], p[2]) =
        IF p[1] < 0 \/ p[1] >= m.width \/ p[2] < 0 \/ p[2] >= m.height THEN FALSE
        ELSE tiles(m, p[1], p[2]) \in {"Floor", "Door", "Grass", "Forest", "Town", "Dungeon"}

\* C19: is_walkable(x, y) is false for every coordinate with x < 0,
\* x >= width, y < 0 or y >= height, and inside the bounds it is true exactly
\* for Floor, Door, Grass, Forest, TownGate and DungeonGate: on every cell of
\* and around the three kinds of map (the maps are fixed, so this is settled
\* once, at the start of the session), and in every reachable state on the
\* cells within Margin of the player.
C19_WalkableInBounds ==
    /\ game = NewGame =>
           \A m \in {new_world_map, new_town_map(0), new_dungeon_map(0)} :
               \A p \in Around(m) : WalkableAsStated(m, p)
    /\ \A dx \in (0 - Margin)..Margin : \A dy \in (0 - Margin)..Margin :
           WalkableAsStated(game.current_map, <<game.player.x + dx, game.player.y + dy>>)

\* In Dungeon #1, one step south of the entry: floor ahead, the boundary
\* wall to the west and nothing walkable beyond it.
C19_Witness ==
    /\ game.current_map.name = "Dungeon #1"
    /\ <<game.player.x, game.player.y>> = <<5, 6>>
    /\ is_walkable(game.current_map, 5, 7)
    /\ ~is_walkable(game.current_map, 0, 6)
    /\ ~is_walkable(game.current_map, 0 - 1, 6)

\* The game g with the player's health set to h.
WithHealth(g, h) == [g EXCEPT !.player.hp = h]

\* C20: the player's health may be zero or negative and the state machine
\* does not look at it: in every reachable state with player health <= 0,
\* every frame does to the state what it does to the same state with full
\* health (the same mode, roster, position, maps, log, and the same loss of
\* health), and ends in one of the four modes.
C20_HealthIgnored ==
    (~game.panicked /\ game.player.hp <= 0) =>
        \A K \in KeySets :
            LET hurt == Frame(game, K)
                hale == Frame(WithHealth(game, game.player.max_hp), K)
            IN /\ WithHealth(hurt, 0) = WithHealth(hale, 0)
               /\ hurt.player.hp - game.player.hp = hale.player.hp - game.player.max_hp
               /\ hurt.state.tag \in {"Playing", "Inventory", "Dialogue", "Combat"}

\* The guard defeated by a player whose health the counter-attacks had
\* brought to zero, the game going on in Playing.
C20_Witness ==
    /\ game.player.hp <= 0
    /\ game.state = Playing
    /\ Last(game.messages) = "Dungeon Guard defeated!"
    /\ game.current_map.name = "Dungeon #1"

\* The option `selected` of the node a Dialogue mode names, in game g.
SelectedOption(g) ==
    g.npcs[g.state.npc_idx + 1].dialogue[g.state.node_idx + 1].options[g.state.selected + 1]

\* The number of options of the node a Dialogue mode names, in game g.
NumOptions(g) ==
    Len(g.npcs[g.state.npc_idx + 1].dialogue[g.state.node_idx + 1].options)

\* C21: in every reachable Dialogue(a, n, o), a frame of Up gives
\* (a, n, o-1) if o > 0 and otherwise changes nothing; a frame of Down gives
\* (a, n, o+1) if o+1 is less than the number of options of node n and
\* otherwise changes nothing; a frame of Confirm (Space or Enter) gives
\* (a, next, 0) when option o of node n has a next node and Playing when it
\* has none; nothing but the mode changes.
C21_DialogueTable ==
    (~game.panicked /\ game.state.tag = "Dialogue") =>
        /\ Frame(game, {"W"}) =
             [game EXCEPT !.state = IF @.selected > 0
                                    THEN Dialogue(@.npc_idx, @.node_idx, @.selected - 1)
                                    ELSE @]
        /\ Frame(game, {"S"}) =
             [game EXCEPT !.state = IF @.selected + 1 < NumOptions(game)
                                    THEN Dialogue(@.npc_idx, @.node_idx, @.selected + 1)
                                    ELSE @]
        /\ \A k \in {"Space", "Enter"} :
               Frame(game, {k}) =
                 [game EXCEPT !.state = IF SelectedOption(game).next_node # << >>
                                        THEN Dialogue(@.npc_idx,
                                                      SelectedOption(game).next_node[1], 0)
                                        ELSE Playing]

\* The merchant's first node with its last option selected: Down has moved
\* the selection twice and now changes nothing, Up moves it back, and
\* Confirm ends the dialogue.
C21_Witness ==
    /\ game.state = Dialogue(0, 0, 2)
    /\ game.npcs[1].name = "Traveling Merchant"
    /\ Frame(game, {"S"}) = game
    /\ Frame(game, {"W"}).state = Dialogue(0, 0, 1)
    /\ Frame(game, {"Enter"}).state = Playing

\* The game g with its mode set to s.
WithState(g, s) == [g EXCEPT !.state = s]

Obstructed(m, x, y) ==
    \/ x < 0 \/ x >= m.width \/ y < 0 \/ y >= m.height
    \/ tiles(m, x, y) \in {"Wall", "Water", "Mountain"}

\* The layouts, each with the roster of its location.
Layouts ==
    { <<new_world_map, WorldNpcs>>, <<new_town_map(0), TownNpcs>>,
      <<new_dungeon_map(0), DungeonNpcs>> }

\* The cells of map m.
Cells(m) == (0..(m.width - 1)) \X (0..(m.height - 1))

\* The new game with the player standing on cell p of layout l.
Standing(l, p) ==
    [NewGame EXCEPT !.current_map = l[1], !.npcs = l[2],
                    !.player.x = p[1], !.player.y = p[2]]

\* C23: a move whose target cell holds no roster actor and is a wall, water,
\* a mountain or outside the grid changes nothing: position, inventory,
\* active grid, roster, mode, LocationMemory and message log are as before.
\* In every reachable Playing state, for every frame whose only move is that
\* one; and for the move step itself from every walkable cell of the three
\* layouts (the layouts are fixed, so this is settled once, at the start of
\* the session).
C23_BlockedMoveRejected ==
    /\ game = NewGame =>
           \A l \in Layouts : \A p \in Cells(l[1]) : \A d \in MoveKeys :
               ( /\ is_walkable(l[1], p[1], p[2])
                 /\ NpcPosition(Standing(l, p), p[1] + Delta(d)[1], p[2] + Delta(d)[2]) = << >>
                 /\ Obstructed(l[1], p[1] + Delta(d)[1], p[2] + Delta(d)[2]) ) =>
               move_player(Standing(l, p), Delta(d)[1], Delta(d)[2]) = Standing(l, p)
    /\ (~game.panicked /\ game.state.tag = "Playing") =>
           \A d \in MoveKeys :
               ( /\ NpcPosition(game, Target(d)[1], Target(d)[2]) = << >>
                 /\ Obstructed(game.current_map, Target(d)[1], Target(d)[2]) ) =>
               \A K \in KeySets : OnlyMove(K, d) => Frame(game, K) = game

\* On the northern edge of the overworld, the move north aimed outside the
\* grid and rejected.
C23_Witness ==
    /\ game.state = Playing
    /\ game.current_map.map_type = "WorldMap"
    /\ <<game.player.x, game.player.y>> = <<40, 0>>
    /\ Obstructed(game.current_map, 40, 0 - 1)
    /\ Frame(game, {"W"}) = game
    /\ Frame(game, {"S"}) # game

\* The catalog entry behind each gate of the overworld, as kind and index.
GateEntry ==
    [p \in {<<15, 10>>, <<50, 25>>, <<40, 8>>, <<25, 30>>} |->
        CASE p = <<15, 10>> -> <<"Town", 0>>
          [] p = <<50, 25>> -> <<"Town", 1>>
          [] p = <<40, 8>> -> <<"Dungeon", 0>>
          [] p = <<25, 30>> -> <<"Dungeon", 1>>]

\* Entry number i of the catalog of a kind, in game g.
CatalogMap(g, kind, i) == IF kind = "Town" THEN g.town_maps[i + 1] ELSE g.dungeon_maps[i + 1]

\* C24: the gates of the overworld are (15,10), (50,25), (40,8) and (25,30);
\* Enter on the town gate (15,10) loads Town index 0 and on (50,25) Town
\* index 1, on the dungeon gate (40,8) Dungeon index 0 and on (25,30) Dungeon
\* index 1; the player is placed at (20,15) in a town and at (5,5) in a
\* dungeon, and "Entered " followed by the map's name is the last message.
C24_GateSelectsCatalogEntry ==
    /\ Gates = DOMAIN GateEntry
    /\ ( /\ ~game.panicked
         /\ game.state = Playing
         /\ game.current_map.map_type = "WorldMap"
         /\ <<game.player.x, game.player.y>> \in DOMAIN GateEntry ) =>
       LET e == GateEntry[<<game.player.x, game.player.y>>]
           in == Frame(game, {"Space"})
       IN /\ in.current_map = CatalogMap(game, e[1], e[2])
          /\ in.current_map.map_type = e[1]
          /\ in.current_map.name = e[1] \o " #" \o ToString(e[2] + 1)
          /\ <<in.player.x, in.player.y>> = IF e[1] = "Town" THEN <<20, 15>> ELSE <<5, 5>>
          /\ Last(in.messages) = "Entered " \o in.current_map.name
          /\ in = update_camera(try_enter_location(game))

\* In Dungeon #2 right after Enter on the far dungeon gate (25,30).
C24_Witness ==
    /\ game.current_map = game.dungeon_maps[2]
    /\ game.current_map.name = "Dungeon #2"
    /\ <<game.player.x, game.player.y>> = <<5, 5>>
    /\ game.previous_location # << >>
    /\ <<game.previous_location[1].x, game.previous_location[1].y>> = <<25, 30>>
    /\ Last(game.messages) = "Entered Dungeon #2"

\* The player's position lies inside the active grid of game g.
InGrid(g) ==
    /\ 0 <= g.player.x /\ g.player.x < g.current_map.width
    /\ 0 <= g.player.y /\ g.player.y < g.current_map.height

\* C25: in every reachable state the player's position lies inside the
\* active grid, 0 <= x < width and 0 <= y < height, and so it does after the
\* frame of every single key from it (a move, Enter into the smaller grid of
\* a town or dungeon, Return); the tile lookup of try_enter at the player's
\* position is inside the tile matrix.
C25_PlayerInsideGrid ==
    /\ InGrid(game)
    /\ ~game.panicked => \A k \in Keys : InGrid(Frame(game, {k}))

\* In Town #2, entered from the gate (50,25), a coordinate outside the
\* town's 40 columns: the player stands on the entry, inside the grid.
C25_Witness ==
    /\ game.current_map.map_type = "Town"
    /\ game.previous_location # << >>
    /\ game.previous_location[1].x >= game.current_map.width
    /\ <<game.player.x, game.player.y>> = <<20, 15>>
    /\ InGrid(game)

\* C26: in every reachable state the player stands on a walkable cell of
\* the active grid: is_walkable(player.x, player.y) holds, also right after
\* entering a town or a dungeon at its entry coordinate and after returning
\* to the overworld.
C26_PlayerOnWalkableCell ==
    is_walkable(game.current_map, game.player.x, game.player.y)

\* No actor of the roster of game g stands on the player's cell.
ApartFromActors(g) ==
    \A i \in 1..Len(g.npcs) : <<g.npcs[i].x, g.npcs[i].y>> # <<g.player.x, g.player.y>>

\* C27: in every reachable state no roster actor occupies the player's
\* cell, and none does after the frame of every single key from it: neither
\* a move, nor Enter onto a location's entry coordinate, nor Return onto the
\* remembered gate puts the player on an actor's position.
C27_NoActorOnPlayerCell ==
    /\ ApartFromActors(game)
    /\ ~game.panicked => \A k \in Keys : ApartFromActors(Frame(game, {k}))

\* East of the merchant after a move west onto the merchant's cell: the
\* player has not moved and the dialogue has started.
C27_Witness ==
    /\ game.state = Dialogue(0, 0, 0)
    /\ <<game.player.x, game.player.y>> = <<36, 20>>
    /\ <<game.npcs[1].x, game.npcs[1].y>> = <<35, 20>>
    /\ is_walkable(game.current_map, 35, 20)
    /\ ApartFromActors(game)

\* C28: whenever the player stands on a cell, the active grid holds no
\* ground item at that cell: an item is picked up at the moment the player
\* arrives on its cell, also when the player arrives by entering a location
\* at its entry coordinate.
C28_NoItemUnderPlayer ==
    <<game.player.x, game.player.y>> \notin DOMAIN game.current_map.items

\* move_player moves the player onto cell q of the active grid of game g: no
\* roster actor stands on q and q is walkable.
Admits(g, q) ==
    /\ NpcPosition(g, q[1], q[2]) = << >>
    /\ is_walkable(g.current_map, q[1], q[2])

\* The cells one move away from a cell of the set F.
Steps(F) == {<<p[1] + Delta(d)[1], p[2] + Delta(d)[2]>> : p \in F, d \in MoveKeys}

\* The cells the player of game g arrives on by one or more moves: `seen`
\* with everything that moves reach from the cells of `frontier`.
RECURSIVE Flood(_, _, _)
Flood(g, seen, frontier) ==
    IF frontier = {} THEN seen
    ELSE Flood(g, seen \cup {q \in Steps(frontier) : Admits(g, q)},
               {q \in Steps(frontier) : Admits(g, q)} \ seen)

Arrivals(g) == Flood(g, {}, {<<g.player.x, g.player.y>>})

\* C29: every ground item of a town or dungeon layout can be picked up: in
\* every reachable state, each item on the active grid lies on a cell the
\* player can arrive on by a sequence of moves (the cell is walkable and
\* reachable), the arrival putting the item into the inventory.
C29_ItemsCanBePickedUp ==
    (~game.panicked /\ game.current_map.items # << >>) =>
        \A p \in DOMAIN game.current_map.items :
            /\ is_walkable(game.current_map, p[1], p[2])
            /\ p \in Arrivals(game)

\* Every actor of a roster has health above 0 and at most its maximum.
HealthInRange(npcs) ==
    \A i \in 1..Len(npcs) : 0 < npcs[i].hp /\ npcs[i].hp <= npcs[i].max_hp

\* What a frame may do to the roster: nothing; replace it by a location's
\* roster as loaded; lower one actor's health by the damage of an Attack,
\* the result being positive; or remove one actor that the damage of an
\* Attack brings to zero or below.
HealthStep(before, after) ==
    \/ after = before
    \/ after \in Rosters
    \/ \E i \in 1..Len(before) :
           IF before[i].hp - damage > 0
           THEN after = [before EXCEPT ![i].hp = @ - damage]
           ELSE after = RemoveAt(before, i - 1)

\* C30: at every frame boundary each actor in the roster has health above 0
\* and at most its maximum health, and a frame never raises an actor's
\* health: it leaves the roster alone, loads a location's roster, lowers one
\* actor's health by 15 or, when that gives 0 or less, removes the actor in
\* the same frame.  Checked for every key set in Combat and every single key
\* in the other modes.
C30_ActorHealthInRange ==
    /\ HealthInRange(game.npcs)
    /\ \A roster \in Rosters : HealthInRange(roster)
    /\ (~game.panicked /\ game.state.tag = "Combat") =>
           \A K \in KeySets :
               /\ HealthInRange(Frame(game, K).npcs)
               /\ HealthStep(game.npcs, Frame(game, K).npcs)
    /\ (~game.panicked /\ game.state.tag # "Combat") =>
           \A k \in Keys :
               /\ HealthInRange(Frame(game, {k}).npcs)
               /\ HealthStep(game.npcs, Frame(game, {k}).npcs)

\* The guard at health 5 after five Attacks, in combat: the next Attack
\* removes it from the roster within its frame.
C30_Witness ==
    /\ game.state = Combat(0)
    /\ game.npcs[1].name = "Dungeon Guard"
    /\ game.npcs[1].hp = 5
    /\ Len(Frame(game, {"Key1"}).npcs) = Len(game.npcs) - 1
    /\ HealthInRange(Frame(game, {"Key1"}).npcs)

\* Inventory `after` is inventory `before`, or `before` with one item
\* appended at its end.
SameOrAppended(before, after) ==
    \/ after = before
    \/ /\ Len(after) = Len(before) + 1
       /\ SubSeq(after, 1, Len(before)) = before

\* C31: the inventory is append-only.  In every reachable state a Playing
\* frame of any set of the keys the Playing arm polls leaves the inventory
\* as it is or with one item appended at its end, and so does each key
\* handler of the Playing arm (moves, Enter, Return); a frame of Combat,
\* with or without the Use Item key of the combat overlay, and a frame of
\* Dialogue or Inventory leave the inventory as it is.
C31_InventoryAppendOnly ==
    ~game.panicked =>
        /\ game.state.tag = "Playing" =>
               /\ \A K \in KeySets :
                      K \subseteq {PlayingKeys[i] : i \in 1..Len(PlayingKeys)} =>
                          SameOrAppended(game.player.inventory,
                                         Frame(game, K).player.inventory)
               /\ \A i \in 1..Len(PlayingKeys) :
                      SameOrAppended(game.player.inventory,
                                     PlayingKey(game, PlayingKeys[i]).player.inventory)
        /\ game.state.tag # "Playing" =>
               \A K \in KeySets :
                   Frame(game, K).player.inventory = game.player.inventory
        /\ game.state.tag = "Combat" =>
               \A K \in KeySets :
                   Frame(game, K \cup {UseItem}).player.inventory = game.player.inventory

\* In combat with the guard, the Treasure Chest in the inventory: Use Item
\* leaves it there, and so does an Attack.
C31_Witness ==
    /\ game.state = Combat(0)
    /\ game.npcs[1].name = "Dungeon Guard"
    /\ Len(game.player.inventory) = 1
    /\ game.player.inventory[1].name = "Treasure Chest"
    /\ Frame(game, {UseItem}).player.inventory = game.player.inventory
    /\ Frame(game, {"Key1", UseItem}).player.inventory = game.player.inventory

====
